---- MODULE Spec2Model ----
(***************************************************************************)
(* Model of the Signal K Windy.com plugin (src/index.js).                  *)
(*                                                                         *)
(* Units.  JavaScript numbers are modelled by scaled integers:             *)
(*   wind speed        1/1000 m/s   (toFixed(2) keeps multiples of 10)     *)
(*   angles in         1/1000 rad,  stored direction in whole degrees      *)
(*   temperature in    1/100 K,     stored temperature in 1/10 degree C    *)
(*   humidity in       1/1000,      stored humidity in whole percent       *)
(*   knots             1/10 kt                                             *)
(* null / undefined is the value Null (NullPos for the position object).   *)
(***************************************************************************)
EXTENDS Integers, Sequences, FiniteSets

\* ------------------------------------------------------------------ bounds
MaxSamples  == 2   \* wind-speed deltas delivered between two buffer clears
MaxStarts   == 2   \* successful plugin.start calls in one behaviour
MaxInFlight == 2   \* HTTP requests whose callback has not run yet
MaxTime     == 2   \* readings of the wall clock
MaxWindow   == 4   \* samples in the window handed to median
MaxValues   == 2   \* values in one update of a delta batch

\* --------------------------------------------------------------- constants
Null == -1000000

NullPos == [latitude |-> Null, longitude |-> Null]

PathPosition         == "navigation.position"
PathWindSpeed        == "environment.wind.speedOverGround"
PathWindDirection    == "environment.wind.directionGround"
PathWaterTemperature == "environment.water.temperature"
PathTemperature      == "environment.outside.temperature"
PathPressure         == "environment.outside.pressure"
PathHumidity         == "environment.outside.humidity"
PathOther            == "navigation.speedOverGround"
PathCustomPressure   == "environment.inside.pressure"

DefaultPaths ==
  {PathPosition, PathWindSpeed, PathWindDirection, PathWaterTemperature,
   PathTemperature, PathPressure, PathHumidity}

\* The free identifier `options` of processDelta is not the parameter of
\* plugin.start: it resolves in the global scope, which the plugin does not
\* control.  "unbound": no such global (a ReferenceError on evaluation);
\* "nopaths": a global object without configured paths.
GlobalOptionsEnvs == {"unbound", "nopaths"}

\* ------------------------------------------------------------------ inputs
Positions  == {[latitude |-> 41, longitude |-> -70]}
WindRaw    == {5000, 7000}
DirRaw     == {1571}
KelvinRaw  == {30015}
WaterRaw   == {28815}
PressRaw   == {101300}
HumidRaw   == {455}
ApiKeys    == {Null, 1}
Outcomes   == {"ok200", "status500", "transportError"}
BatchShapes == {"ok", "noUpdates", "emptyUpdates", "noValues", "emptyValues"}

ValuesOf(path) ==
  CASE path = PathPosition         -> Positions
    [] path = PathWindSpeed        -> WindRaw
    [] path = PathWindDirection    -> DirRaw
    [] path = PathWaterTemperature -> WaterRaw
    [] path = PathTemperature      -> KelvinRaw
    [] path = PathPressure         -> PressRaw
    [] path = PathCustomPressure   -> PressRaw
    [] path = PathHumidity         -> HumidRaw
    [] OTHER                       -> {0}

VARIABLES
  globalOptions,
  position, windSpeed, windGust, windDirection, waterTemperature,
  temperature, pressure, humidity, lastSuccessfulUpdate,
  unsubscribes, statusProcess, submitProcess, liveStatus, liveSubmit, started,
  inflight, posted, logged, statusSet,
  fedPosition, fedWind, fedDirection, fedTemperature,
  tracking, flight, failedSnap, overtaken

buffer ==
  <<position, windSpeed, windGust, windDirection, waterTemperature,
    temperature, pressure, humidity, lastSuccessfulUpdate>>

lifecycle ==
  <<unsubscribes, statusProcess, submitProcess, liveStatus, liveSubmit, started>>

\* What the handler that ran last handed to the host: the request it issued,
\* the line it logged (app.debug / app.error) and the status it published.
outputs == <<posted, logged, statusSet>>

fed == <<fedPosition, fedWind, fedDirection, fedTemperature>>

\* The requests whose callback has not run yet (flight), each with the
\* windSpeed window its body was computed from and whether a response has
\* succeeded since it was issued; the window of the request that failed last
\* since the last success (failedSnap) and whether a response had succeeded
\* while that request was in flight (overtaken). They are followed only in
\* behaviours that start with tracking set.
track == <<tracking, flight, failedSnap, overtaken>>

vars == <<globalOptions, buffer, lifecycle, inflight, outputs, fed, track>>

\* ------------------------------------------------------------ pure helpers
RECURSIVE Insert(_, _)
Insert(x, s) ==
  IF s = <<>> THEN <<x>>
  ELSE IF x <= Head(s) THEN <<x>> \o s
  ELSE <<Head(s)>> \o Insert(x, Tail(s))

RECURSIVE SortAsc(_)
SortAsc(s) == IF s = <<>> THEN <<>> ELSE Insert(Head(s), SortAsc(Tail(s)))

\* A median that takes the middle of the window as it stands.
medianUnsorted(arr) ==
  LET mid == Len(arr) \div 2
  IN  IF Len(arr) % 2 # 0 THEN arr[mid + 1]
      ELSE (arr[mid] + arr[mid + 1]) \div 2

median(arr) ==
  LET mid  == Len(arr) \div 2
      nums == SortAsc(arr)
  IN  IF Len(arr) % 2 # 0 THEN nums[mid + 1]
      ELSE (nums[mid] + nums[mid + 1]) \div 2

\* Math.round: floor(x + 1/2), for x = num / den with den > 0 and even
MathRound(num, den) == (num + den \div 2) \div den

\* value.toFixed(2) then parseFloat, on 1/1000 units
toFixed2(v) == MathRound(v, 10) * 10

radiantToDegrees(mrad) == mrad * 572958

kelvinToCelsius(centiK) == centiK - 27315

metersPerSecondToKnots(ms) ==
  IF ms = Null THEN Null ELSE MathRound(ms * 194384, 10000000)

NoPost ==
  [lat |-> Null, lon |-> Null, temp |-> Null, wind |-> Null, gust |-> Null,
   winddir |-> Null, pressure |-> Null, rh |-> Null]

NoStatus == [kind |-> "none", submitted |-> FALSE, speedKts |-> Null, gustKts |-> Null]

\* -------------------------------------------------------------------- Init
Init ==
  /\ globalOptions \in GlobalOptionsEnvs
  /\ position = NullPos
  /\ windSpeed = <<>>
  /\ windGust = Null
  /\ windDirection = Null
  /\ waterTemperature = Null
  /\ temperature = Null
  /\ pressure = Null
  /\ humidity = Null
  /\ lastSuccessfulUpdate = Null
  /\ unsubscribes = 0
  /\ statusProcess = Null
  /\ submitProcess = Null
  /\ liveStatus = {}
  /\ liveSubmit = {}
  /\ started = 0
  /\ inflight = 0
  /\ posted = NoPost
  /\ logged = "none"
  /\ statusSet = NoStatus
  /\ fedPosition = NullPos
  /\ fedWind = <<>>
  /\ fedDirection = Null
  /\ fedTemperature = Null
  /\ tracking = FALSE
  /\ flight = <<>>
  /\ failedSnap = <<>>
  /\ overtaken = FALSE


\* ------------------------------------------------------------ processDelta
\* The ingest fields as one record, so that one delivered delta can be run
\* through every registered subscription callback.
Ingest ==
  [position |-> position, windSpeed |-> windSpeed, windGust |-> windGust,
   windDirection |-> windDirection, waterTemperature |-> waterTemperature,
   temperature |-> temperature, pressure |-> pressure, humidity |-> humidity,
   debug |-> "none"]

\* `case options.paths?.X` for a string path: with no global `options` the
\* evaluation throws; with a global object without paths it is undefined and
\* matches no string.
OptionsCaseThrows == globalOptions = "unbound"

\* A new sample that ignores the gust seen so far.
NewGustLatest(gust, speed) == speed

NewGust(gust, speed) ==
  IF (gust = Null) \/ (speed > gust) THEN speed ELSE gust

\* A switch whose default branch stores the value as the pressure.
processDeltaUnknownAsPressure(b, shape, path, value) ==
  IF shape # "ok" THEN b
  ELSE IF path = PathPosition THEN [b EXCEPT !.position = value]
  ELSE IF OptionsCaseThrows THEN b
  ELSE IF path = PathWindSpeed THEN
    LET speed == toFixed2(value)
    IN  [b EXCEPT !.windGust = NewGust(b.windGust, speed),
                  !.windSpeed = Append(b.windSpeed, speed)]
  ELSE IF path = PathWindDirection THEN
    [b EXCEPT !.windDirection = MathRound(radiantToDegrees(value), 10000000)]
  ELSE IF path = PathWaterTemperature THEN
    [b EXCEPT !.waterTemperature = MathRound(kelvinToCelsius(value), 10)]
  ELSE IF path = PathTemperature THEN
    [b EXCEPT !.temperature = MathRound(kelvinToCelsius(value), 10)]
  ELSE IF path = PathPressure THEN [b EXCEPT !.pressure = value]
  ELSE IF path = PathHumidity THEN
    [b EXCEPT !.humidity = MathRound(100 * value, 1000)]
  ELSE [b EXCEPT !.pressure = value, !.debug = "unknown"]

processDelta(b, shape, path, value) ==
  IF shape # "ok" THEN b
  ELSE IF path = PathPosition THEN [b EXCEPT !.position = value]
  ELSE IF OptionsCaseThrows THEN b
  ELSE IF path = PathWindSpeed THEN
    LET speed == toFixed2(value)
    IN  [b EXCEPT !.windGust = NewGust(b.windGust, speed),
                  !.windSpeed = Append(b.windSpeed, speed)]
  ELSE IF path = PathWindDirection THEN
    [b EXCEPT !.windDirection = MathRound(radiantToDegrees(value), 10000000)]
  ELSE IF path = PathWaterTemperature THEN
    [b EXCEPT !.waterTemperature = MathRound(kelvinToCelsius(value), 10)]
  ELSE IF path = PathTemperature THEN
    [b EXCEPT !.temperature = MathRound(kelvinToCelsius(value), 10)]
  ELSE IF path = PathPressure THEN [b EXCEPT !.pressure = value]
  ELSE IF path = PathHumidity THEN
    [b EXCEPT !.humidity = MathRound(100 * value, 1000)]
  ELSE [b EXCEPT !.debug = "unknown"]

\* The host calls every registered callback with the delta.
RECURSIVE Deliver(_, _, _, _, _)
Deliver(b, n, shape, path, value) ==
  IF n = 0 THEN b
  ELSE Deliver(processDelta(b, shape, path, value), n - 1, shape, path, value)

Delta(shape, path, value) ==
  /\ unsubscribes > 0
  /\ (shape = "ok" /\ path = PathWindSpeed) =>
       /\ Len(fedWind) < MaxSamples
       /\ Len(windSpeed) + unsubscribes <= MaxSamples
  /\ LET b == Deliver(Ingest, unsubscribes, shape, path, value)
     IN  /\ position' = b.position
         /\ windSpeed' = b.windSpeed
         /\ windGust' = b.windGust
         /\ windDirection' = b.windDirection
         /\ waterTemperature' = b.waterTemperature
         /\ temperature' = b.temperature
         /\ pressure' = b.pressure
         /\ humidity' = b.humidity
         /\ logged' = b.debug
  /\ posted' = NoPost
  /\ statusSet' = NoStatus
  /\ fedPosition' = IF shape = "ok" /\ path = PathPosition THEN value ELSE fedPosition
  /\ fedWind' = IF shape = "ok" /\ path = PathWindSpeed THEN Append(fedWind, value) ELSE fedWind
  /\ fedDirection' = IF shape = "ok" /\ path = PathWindDirection THEN value ELSE fedDirection
  /\ fedTemperature' = IF shape = "ok" /\ path = PathTemperature THEN value ELSE fedTemperature
  /\ UNCHANGED <<globalOptions, lastSuccessfulUpdate, lifecycle, inflight, track>>

\* A delta as the host delivers it: `updates` may be missing, and so may the
\* `values` of an update; each value names a path.
BatchEntries ==
  {[path |-> PathWindSpeed, value |-> v] : v \in WindRaw}
    \cup {[path |-> PathTemperature, value |-> v] : v \in KelvinRaw}
    \cup {[path |-> PathOther, value |-> 0]}

\* Values that follow the first one in an update.
TrailingEntries ==
  {[path |-> PathTemperature, value |-> v] : v \in KelvinRaw}
    \cup {[path |-> PathOther, value |-> 0]}

BatchUpdates ==
  {[hasValues |-> FALSE, values |-> <<>>]}
    \cup {[hasValues |-> TRUE, values |-> l] :
            l \in UNION {{t \in [1..n -> BatchEntries] :
                            \A i \in 2..n : t[i] \in TrailingEntries} :
                         n \in 0..MaxValues}}

\* Updates that follow the first one in a batch.
TrailingUpdates ==
  {[hasValues |-> FALSE, values |-> <<>>]}
    \cup {[hasValues |-> TRUE, values |-> <<[path |-> PathTemperature, value |-> v]>>] :
            v \in KelvinRaw}

Batches ==
  {[hasUpdates |-> FALSE, updates |-> <<>>], [hasUpdates |-> TRUE, updates |-> <<>>]}
    \cup {[hasUpdates |-> TRUE, updates |-> <<u>>] : u \in BatchUpdates}
    \cup {[hasUpdates |-> TRUE, updates |-> <<u, w>>] :
            u \in BatchUpdates, w \in TrailingUpdates}

\* The early return at the head of processDelta, by the test that fails.
ShapeOf(data) ==
  IF ~ data.hasUpdates THEN "noUpdates"
  ELSE IF Len(data.updates) = 0 THEN "emptyUpdates"
  ELSE IF ~ data.updates[1].hasValues THEN "noValues"
  ELSE IF Len(data.updates[1].values) = 0 THEN "emptyValues"
  ELSE "ok"

\* A reader that takes the last value of the first update.
LastValue(data) == data.updates[1].values[Len(data.updates[1].values)]

FirstValue(data) == data.updates[1].values[1]

DeltaBatch(data) ==
  IF ShapeOf(data) = "ok"
  THEN Delta("ok", FirstValue(data).path, FirstValue(data).value)
  ELSE Delta(ShapeOf(data), PathOther, 0)

\* ------------------------------------------------------------ plugin.start
\* A start that reports the missing key but does not return.
StartNoReturn(apiKey) ==
  /\ started < MaxStarts
  /\ started' = started + 1
  /\ statusSet' = [NoStatus EXCEPT !.kind = "submitting"]
  /\ unsubscribes' = unsubscribes + 1
  /\ logged' = "starting"
  /\ statusProcess' = started + 1
  /\ liveStatus' = liveStatus \cup {started + 1}
  /\ submitProcess' = started + 1
  /\ liveSubmit' = liveSubmit \cup {started + 1}
  /\ posted' = NoPost
  /\ UNCHANGED <<globalOptions, buffer, inflight, fed, track>>

Start(apiKey) ==
  IF apiKey = Null
  THEN /\ logged' = "error: API Key is required"
       /\ posted' = NoPost
       /\ statusSet' = NoStatus
       /\ UNCHANGED <<globalOptions, buffer, lifecycle, inflight, fed, track>>
  ELSE /\ started < MaxStarts
       /\ started' = started + 1
       /\ statusSet' = [NoStatus EXCEPT !.kind = "submitting"]
       /\ unsubscribes' = unsubscribes + 1
       /\ logged' = "starting"
       /\ statusProcess' = started + 1
       /\ liveStatus' = liveStatus \cup {started + 1}
       /\ submitProcess' = started + 1
       /\ liveSubmit' = liveSubmit \cup {started + 1}
       /\ posted' = NoPost
       /\ UNCHANGED <<globalOptions, buffer, inflight, fed, track>>

\* ------------------------------------------------------------- plugin.stop
Stop ==
  /\ liveStatus' = liveStatus \ {statusProcess}
  /\ liveSubmit' = liveSubmit \ {submitProcess}
  /\ statusSet' = [NoStatus EXCEPT !.kind = "stopped"]
  /\ logged' = "none"
  /\ posted' = NoPost
  /\ UNCHANGED <<globalOptions, buffer, unsubscribes, statusProcess, submitProcess,
                 started, inflight, fed, track>>

\* ----------------------------------------------------------- status timer
\* A message that reports the oldest sample of the window.
StatusMessageFirstSample ==
  LET hasWind == (Len(windSpeed) > 0) /\ (windGust # Null)
  IN  [kind      |-> "status",
       submitted |-> lastSuccessfulUpdate # Null,
       speedKts  |-> IF hasWind THEN metersPerSecondToKnots(windSpeed[1])
                     ELSE Null,
       gustKts   |-> IF hasWind THEN metersPerSecondToKnots(windGust) ELSE Null]

StatusMessage ==
  LET hasWind == (Len(windSpeed) > 0) /\ (windGust # Null)
  IN  [kind      |-> "status",
       submitted |-> lastSuccessfulUpdate # Null,
       speedKts  |-> IF hasWind THEN metersPerSecondToKnots(windSpeed[Len(windSpeed)])
                     ELSE Null,
       gustKts   |-> IF hasWind THEN metersPerSecondToKnots(windGust) ELSE Null]

StatusTick(id) ==
  /\ id \in liveStatus
  /\ statusSet' = StatusMessage
  /\ logged' = "none"
  /\ posted' = NoPost
  /\ UNCHANGED <<globalOptions, buffer, lifecycle, inflight, fed, track>>

\* ----------------------------------------------------------- submit timer
\* A precondition that forgets the wind direction.
CanSubmitNoDirection ==
  ~ ((position = NullPos) \/ (Len(windSpeed) = 0) \/ (temperature = Null))

CanSubmit ==
  ~ ((position = NullPos) \/ (Len(windSpeed) = 0) \/ (windDirection = Null)
      \/ (temperature = Null))

\* A body that reports the latest sample instead of the median.
PostBodyLatestSample ==
  [lat      |-> position.latitude,
   lon      |-> position.longitude,
   temp     |-> temperature,
   wind     |-> windSpeed[Len(windSpeed)],
   gust     |-> windGust,
   winddir  |-> windDirection,
   pressure |-> pressure,
   rh       |-> humidity]

PostBody ==
  [lat      |-> position.latitude,
   lon      |-> position.longitude,
   temp     |-> temperature,
   wind     |-> median(windSpeed),
   gust     |-> windGust,
   winddir  |-> windDirection,
   pressure |-> pressure,
   rh       |-> humidity]

\* A tick that waits for the response of the request before it.
SubmitTickGuarded(id) ==
  /\ id \in liveSubmit
  /\ IF (~ CanSubmit) \/ (inflight > 0)
     THEN /\ logged' = "skip"
          /\ posted' = NoPost
          /\ UNCHANGED <<inflight, flight>>
     ELSE /\ inflight < MaxInFlight
          /\ posted' = PostBody
          /\ inflight' = inflight + 1
          /\ flight' = IF tracking
                        THEN Append(flight, [window |-> windSpeed, overtaken |-> FALSE])
                        ELSE flight
          /\ logged' = "submitting"
  /\ statusSet' = NoStatus
  /\ UNCHANGED <<globalOptions, buffer, lifecycle, fed, tracking, failedSnap, overtaken>>

SubmitTick(id) ==
  /\ id \in liveSubmit
  /\ IF ~ CanSubmit
     THEN /\ logged' = "skip"
          /\ posted' = NoPost
          /\ UNCHANGED <<inflight, flight>>
     ELSE /\ inflight < MaxInFlight
          /\ posted' = PostBody
          /\ inflight' = inflight + 1
          /\ flight' = IF tracking
                        THEN Append(flight, [window |-> windSpeed, overtaken |-> FALSE])
                        ELSE flight
          /\ logged' = "submitting"
  /\ statusSet' = NoStatus
  /\ UNCHANGED <<globalOptions, buffer, lifecycle, fed, tracking, failedSnap, overtaken>>

\* ------------------------------------------------------- request callback
ClearIngest ==
  /\ position' = NullPos
  /\ windSpeed' = <<>>
  /\ windGust' = Null
  /\ windDirection' = Null
  /\ waterTemperature' = Null
  /\ temperature' = Null
  /\ pressure' = Null
  /\ humidity' = Null

ClearFed ==
  /\ fedPosition' = NullPos
  /\ fedWind' = <<>>
  /\ fedDirection' = Null
  /\ fedTemperature' = Null

\* The callback that runs belongs to one of the requests in flight, whichever
\* the server answers first.
Answered(outcome) ==
  /\ UNCHANGED tracking
  /\ IF tracking
     THEN \E i \in 1..Len(flight) :
            LET others == SubSeq(flight, 1, i - 1) \o SubSeq(flight, i + 1, Len(flight))
            IN  IF outcome = "ok200"
                THEN /\ flight' = [j \in 1..Len(others) |->
                                    [others[j] EXCEPT !.overtaken = TRUE]]
                     /\ failedSnap' = <<>>
                     /\ overtaken' = FALSE
                ELSE /\ flight' = others
                     /\ failedSnap' = flight[i].window
                     /\ overtaken' = flight[i].overtaken
     ELSE UNCHANGED <<flight, failedSnap, overtaken>>

\* A callback that leaves the gust of the submitted window in place.
ResponseKeepsGust(outcome, clock) ==
  /\ inflight > 0
  /\ clock >= lastSuccessfulUpdate
  /\ inflight' = inflight - 1
  /\ IF outcome = "ok200"
     THEN /\ logged' = "success"
          /\ lastSuccessfulUpdate' = clock
          /\ position' = NullPos
          /\ windSpeed' = <<>>
          /\ windDirection' = Null
          /\ waterTemperature' = Null
          /\ temperature' = Null
          /\ pressure' = Null
          /\ humidity' = Null
          /\ UNCHANGED windGust
          /\ ClearFed
     ELSE /\ logged' = "error"
          /\ UNCHANGED <<buffer, fed>>
  /\ posted' = NoPost
  /\ statusSet' = NoStatus
  /\ Answered(outcome)
  /\ UNCHANGED <<globalOptions, lifecycle>>

\* A callback that tests only the transport error, not the status code.
ResponseAnyStatus(outcome, clock) ==
  /\ inflight > 0
  /\ clock >= lastSuccessfulUpdate
  /\ inflight' = inflight - 1
  /\ IF outcome # "transportError"
     THEN /\ logged' = "success"
          /\ lastSuccessfulUpdate' = clock
          /\ ClearIngest
          /\ ClearFed
     ELSE /\ logged' = "error"
          /\ UNCHANGED <<buffer, fed>>
  /\ posted' = NoPost
  /\ statusSet' = NoStatus
  /\ Answered(outcome)
  /\ UNCHANGED <<globalOptions, lifecycle>>

\* A callback that stamps the time before it looks at the outcome.
ResponseStampsAlways(outcome, clock) ==
  /\ inflight > 0
  /\ clock >= lastSuccessfulUpdate
  /\ inflight' = inflight - 1
  /\ lastSuccessfulUpdate' = clock
  /\ IF outcome = "ok200"
     THEN /\ logged' = "success"
          /\ ClearIngest
          /\ ClearFed
     ELSE /\ logged' = "error"
          /\ UNCHANGED <<position, windSpeed, windGust, windDirection,
                         waterTemperature, temperature, pressure, humidity, fed>>
  /\ posted' = NoPost
  /\ statusSet' = NoStatus
  /\ Answered(outcome)
  /\ UNCHANGED <<globalOptions, lifecycle>>

\* `clock` is what Date.now() returns when the callback runs; the wall clock
\* is not behind a timestamp it produced earlier.
Response(outcome, clock) ==
  /\ inflight > 0
  /\ clock >= lastSuccessfulUpdate
  /\ inflight' = inflight - 1
  /\ IF outcome = "ok200"
     THEN /\ logged' = "success"
          /\ lastSuccessfulUpdate' = clock
          /\ ClearIngest
          /\ ClearFed
     ELSE /\ logged' = "error"
          /\ UNCHANGED <<buffer, fed>>
  /\ posted' = NoPost
  /\ statusSet' = NoStatus
  /\ Answered(outcome)
  /\ UNCHANGED <<globalOptions, lifecycle>>

DeltaIn(paths) ==
  \/ \E s \in BatchShapes \ {"ok"} : Delta(s, PathOther, 0)
  \/ \E p \in paths : \E v \in ValuesOf(p) : Delta("ok", p, v)

Timers ==
  \/ \E id \in 1..MaxStarts : StatusTick(id)
  \/ \E id \in 1..MaxStarts : SubmitTick(id)
  \/ \E o \in Outcomes, clock \in 1..MaxTime : Response(o, clock)

\* Any sequence of start and stop calls, deltas on every path.
Next ==
  \/ \E k \in ApiKeys : Start(k)
  \/ Stop
  \/ DeltaIn(DefaultPaths \cup {PathOther})
  \/ Timers

Spec == Init /\ [][Next]_vars

\* A vessel that reports only the four paths a submission requires.
CorePaths == {PathPosition, PathWindSpeed, PathWindDirection, PathTemperature}

NextCore ==
  \/ \E k \in ApiKeys : Start(k)
  \/ Stop
  \/ DeltaIn(CorePaths \cup {PathOther})
  \/ Timers

SpecCore == Init /\ [][NextCore]_vars

\* One run of the plugin (the host starts it once), deltas on every path.
NextSensors ==
  \/ \E k \in ApiKeys : (k # Null => started = 0) /\ Start(k)
  \/ Stop
  \/ DeltaIn(DefaultPaths \cup {PathOther})
  \/ Timers

SpecSensors == Init /\ [][NextSensors]_vars

\* One run of the plugin on well-formed deltas of the four required paths,
\* with the requests in flight followed one by one; every response reads the
\* same wall clock.
InitFlight ==
  /\ globalOptions \in GlobalOptionsEnvs
  /\ position = NullPos
  /\ windSpeed = <<>>
  /\ windGust = Null
  /\ windDirection = Null
  /\ waterTemperature = Null
  /\ temperature = Null
  /\ pressure = Null
  /\ humidity = Null
  /\ lastSuccessfulUpdate = Null
  /\ unsubscribes = 0
  /\ statusProcess = Null
  /\ submitProcess = Null
  /\ liveStatus = {}
  /\ liveSubmit = {}
  /\ started = 0
  /\ inflight = 0
  /\ posted = NoPost
  /\ logged = "none"
  /\ statusSet = NoStatus
  /\ fedPosition = NullPos
  /\ fedWind = <<>>
  /\ fedDirection = Null
  /\ fedTemperature = Null
  /\ tracking = TRUE
  /\ flight = <<>>
  /\ failedSnap = <<>>
  /\ overtaken = FALSE

NextFlight ==
  \/ \E k \in ApiKeys : (k # Null => started = 0) /\ Start(k)
  \/ \E p \in CorePaths : \E v \in ValuesOf(p) : Delta("ok", p, v)
  \/ \E id \in 1..MaxStarts : SubmitTick(id)
  \/ \E o \in Outcomes : Response(o, MaxTime)

SpecFlight == InitFlight /\ [][NextFlight]_vars

\* One run of the plugin fed with whole delta batches.
NextBatch ==
  \/ \E k \in ApiKeys : (k # Null => started = 0) /\ Start(k)
  \/ Stop
  \/ \E data \in Batches : DeltaBatch(data)
  \/ \E id \in 1..MaxStarts : StatusTick(id)

SpecBatch == Init /\ [][NextBatch]_vars

\* A started plugin whose buffer is ready for submission, with any window of
\* up to MaxWindow samples; its submit ticks hand the window to median.
WindowSamples == {5000, 6000, 8000}

Windows == UNION {[1..n -> WindowSamples] : n \in 1..MaxWindow}

InitWindow ==
  /\ globalOptions = "nopaths"
  /\ position = [latitude |-> 41, longitude |-> -70]
  /\ windSpeed \in Windows
  /\ windGust = CHOOSE m \in WindowSamples :
                  /\ \E i \in 1..Len(windSpeed) : windSpeed[i] = m
                  /\ \A i \in 1..Len(windSpeed) : windSpeed[i] <= m
  /\ windDirection = 90
  /\ waterTemperature = Null
  /\ temperature = 270
  /\ pressure = Null
  /\ humidity = Null
  /\ lastSuccessfulUpdate = Null
  /\ unsubscribes = 1
  /\ statusProcess = 1
  /\ submitProcess = 1
  /\ liveStatus = {1}
  /\ liveSubmit = {1}
  /\ started = 1
  /\ inflight = 0
  /\ posted = NoPost
  /\ logged = "none"
  /\ statusSet = NoStatus
  /\ fedPosition = position
  /\ fedWind = windSpeed
  /\ fedDirection = 1571
  /\ fedTemperature = 30015
  /\ tracking = FALSE
  /\ flight = <<>>
  /\ failedSnap = <<>>
  /\ overtaken = FALSE

NextWindow == \E id \in 1..MaxStarts : SubmitTick(id)

SpecWindow == InitWindow /\ [][NextWindow]_vars

\* The paths start subscribes to when options.paths.pressure is
\* `pressurePath` ("": not configured) and no other path is configured.
Subscription(pressurePath) ==
  {PathPosition, PathWindDirection, PathWindSpeed, PathWaterTemperature,
   PathTemperature, IF pressurePath = "" THEN PathPressure ELSE pressurePath,
   PathHumidity}

\* Every start configures paths.pressure = PathCustomPressure, so the host
\* delivers the pressure on that path.
NextPaths ==
  \/ \E k \in ApiKeys : Start(k)
  \/ Stop
  \/ DeltaIn(Subscription(PathCustomPressure) \cup {PathOther})
  \/ Timers

SpecPaths == Init /\ [][NextPaths]_vars


\* ================================================================== claims
Clocks == 1..MaxTime

AllPaths == DefaultPaths \cup {PathOther}

Max(seq) == CHOOSE m \in {seq[i] : i \in 1..Len(seq)} :
              \A i \in 1..Len(seq) : seq[i] <= m

IngestCleared ==
  /\ position = NullPos
  /\ windSpeed = <<>>
  /\ windGust = Null
  /\ windDirection = Null
  /\ waterTemperature = Null
  /\ temperature = Null
  /\ pressure = Null
  /\ humidity = Null

\* C1: the callback of a request that came back without transport error and
\* with status 200 sets lastSuccessfulUpdate to the time it reads and, in the
\* same step, empties windSpeed and unsets position, windGust, windDirection,
\* waterTemperature, temperature, pressure and humidity.
C1_SuccessClearsTogether ==
  [][\A clock \in Clocks :
       Response("ok200", clock) =>
         (lastSuccessfulUpdate' = clock /\ IngestCleared')]_vars

\* A success has been handled at clock reading 2, after one at reading 1 or
\* none, and the buffer is empty.
C1_Witness ==
  /\ logged = "success"
  /\ lastSuccessfulUpdate = 2
  /\ IngestCleared

\* C2: the callback of a failed request (transport error, or a status other
\* than 200) changes no buffer field: samples and lastSuccessfulUpdate stay.
C2_FailureKeepsBuffer ==
  [][\A o \in Outcomes \ {"ok200"}, clock \in Clocks :
       Response(o, clock) => UNCHANGED buffer]_vars

\* A failure has been handled and every field, with two samples, is still set.
C2_Witness ==
  /\ logged = "error"
  /\ Len(windSpeed) = 2
  /\ position # NullPos
  /\ windGust # Null
  /\ windDirection # Null
  /\ waterTemperature # Null
  /\ temperature # Null
  /\ pressure # Null
  /\ humidity # Null

\* C3: a submit tick changes no buffer field; it issues no request when
\* position, windSpeed, windDirection or temperature is missing, and exactly
\* one request when all four are present, whatever pressure, humidity and
\* waterTemperature are.
C3_SkipWithoutPrerequisites ==
  [][\A id \in 1..MaxStarts :
       SubmitTick(id) =>
         /\ UNCHANGED buffer
         /\ IF \/ position = NullPos
               \/ windSpeed = <<>>
               \/ windDirection = Null
               \/ temperature = Null
            THEN inflight' = inflight /\ posted' = NoPost
            ELSE inflight' = inflight + 1 /\ posted' # NoPost]_vars

\* A tick was skipped with only the wind direction missing.
C3_Witness ==
  /\ logged = "skip"
  /\ windDirection = Null
  /\ position # NullPos
  /\ windSpeed # <<>>
  /\ temperature # Null

\* C4: once position, wind speed 5 then 7, wind direction and outside
\* temperature have been delivered on the default paths, a submit tick issues
\* one request with wind 6, gust 7, direction 90 and temperature 27.0.
C4_EndToEnd ==
  [][\A id \in 1..MaxStarts :
       ( /\ SubmitTick(id)
         /\ fedPosition = [latitude |-> 41, longitude |-> -70]
         /\ fedWind = <<5000, 7000>>
         /\ fedDirection = 1571
         /\ fedTemperature = 30015 )
       => /\ inflight' = inflight + 1
          /\ posted'.lat = 41
          /\ posted'.lon = -70
          /\ posted'.wind = 6000
          /\ posted'.gust = 7000
          /\ posted'.winddir = 90
          /\ posted'.temp = 270]_vars

\* C5: the request of a submit tick is the buffer of that instant: median of
\* the samples, the gust held, the latest direction, temperature, pressure and
\* humidity, the stored position; issuing it changes no buffer field.
C5_PostIsSnapshot ==
  [][\A id \in 1..MaxStarts :
       (SubmitTick(id) /\ inflight' = inflight + 1) =>
         /\ posted'.wind = median(windSpeed)
         /\ posted'.gust = windGust
         /\ posted'.winddir = windDirection
         /\ posted'.temp = temperature
         /\ posted'.pressure = pressure
         /\ posted'.rh = humidity
         /\ posted'.lat = position.latitude
         /\ posted'.lon = position.longitude
         /\ UNCHANGED buffer]_vars

\* A request went out for the samples 7 then 5 with pressure and humidity set.
C5_Witness ==
  /\ logged = "submitting"
  /\ windSpeed = <<7000, 5000>>
  /\ posted.wind = 6000
  /\ posted.gust = 7000
  /\ posted.pressure = 101300
  /\ posted.rh = 46

\* C6: a start without an API key registers no subscription, creates no
\* timer, issues no request and changes no buffer field.
C6_StartWithoutKeyAborts ==
  [][Start(Null) => UNCHANGED <<buffer, lifecycle, inflight>> /\ posted' = NoPost]_vars

\* A start without key was refused and the plugin has neither subscription
\* nor timers.
C6_Witness ==
  /\ logged = "error: API Key is required"
  /\ unsubscribes = 0
  /\ liveStatus = {}
  /\ liveSubmit = {}

\* C7: after a stop no timer is left, so no status tick and no submit tick
\* fires until a later start.
C7_StopCancelsTimers ==
  [][Stop => (liveStatus' = {} /\ liveSubmit' = {})]_vars

\* The timers of the latest start are live.
Running == submitProcess \in liveSubmit

\* C8: once the plugin is stopped, a delivered delta changes no buffer field.
C8_NoIngestAfterStop ==
  [][\A p \in AllPaths : \A v \in ValuesOf(p) :
       (~ Running /\ Delta("ok", p, v)) => UNCHANGED buffer]_vars

\* C9: whenever windSpeed is not empty, windGust is the maximum of its samples.
C9_GustIsMax ==
  windSpeed # <<>> => windGust = Max(windSpeed)

\* A smaller sample followed a larger one and the gust is the larger.
C9_Witness ==
  /\ windSpeed = <<7000, 5000>>
  /\ windGust = 7000

\* C10: lastSuccessfulUpdate starts unset, changes only in the callback of a
\* successful request, and never goes back to unset.
C10_StampOnlyOnSuccess ==
  /\ lastSuccessfulUpdate = Null
  /\ [][lastSuccessfulUpdate' # lastSuccessfulUpdate =>
          /\ logged' = "success"
          /\ inflight' = inflight - 1
          /\ lastSuccessfulUpdate' # Null]_vars

\* The stamp of a success is still there after a failed request, new samples
\* and a stop.
C10_Witness ==
  /\ lastSuccessfulUpdate = 1
  /\ statusSet.kind = "stopped"
  /\ windSpeed # <<>>


\* C11: with paths.pressure configured, a delta on the configured path sets
\* pressure to its value, as a delta on the default path is meant to.
C11_OverridePathIngested ==
  [][\A v \in PressRaw :
       Delta("ok", PathCustomPressure, v) => pressure' = v]_vars


\* The rearrangements of a sequence: same length, every value as often.
Permutations(seq) ==
  {t \in [1..Len(seq) -> {seq[i] : i \in 1..Len(seq)}] :
     \A x \in {seq[i] : i \in 1..Len(seq)} :
       Cardinality({i \in 1..Len(seq) : t[i] = x})
         = Cardinality({i \in 1..Len(seq) : seq[i] = x})}

Ascending(seq) ==
  CHOOSE t \in Permutations(seq) : \A i \in 1..(Len(seq) - 1) : t[i] <= t[i + 1]

IsStandardMedian(m, seq) ==
  LET n == Len(seq)
      s == Ascending(seq)
  IN  IF n % 2 = 1 THEN m = s[(n + 1) \div 2]
      ELSE 2 * m = s[n \div 2] + s[n \div 2 + 1]

\* C12: the wind of a request is the middle element of the ascending samples
\* for an odd count and the mean of the two middle elements for an even count,
\* median gives that for every rearrangement of the samples, and the window is
\* left as it was.
C12_MedianStandard ==
  [][\A id \in 1..MaxStarts :
       (SubmitTick(id) /\ posted' # NoPost) =>
         /\ IsStandardMedian(posted'.wind, windSpeed)
         /\ \A t \in Permutations(windSpeed) : median(t) = posted'.wind
         /\ windSpeed' = windSpeed]_vars

\* A request went out for an unsorted window of even length.
C12_Witness ==
  /\ logged = "submitting"
  /\ windSpeed = <<8000, 5000, 6000, 8000>>
  /\ posted.wind = 7000


\* C13: a delta on a path that is neither a default path nor a configured one
\* changes no field of the plugin, so every valid delta after it is processed
\* exactly as it would have been without it.
C13_UnknownPathIgnored ==
  [][Delta("ok", PathOther, 0) =>
       /\ UNCHANGED <<buffer, lifecycle, inflight>>
       /\ \A p \in CorePaths : \A v \in ValuesOf(p) :
            processDelta(Ingest', "ok", p, v) = processDelta(Ingest, "ok", p, v)]_vars

\* The default branch of the switch ran while samples were buffered.
C13_Witness ==
  /\ logged = "unknown"
  /\ windSpeed # <<>>
  /\ position # NullPos

\* C14: a submit tick whose prerequisites hold issues a request whether or not
\* an earlier request is still waiting for its response.
C14_NoInFlightGuard ==
  [][\A id \in 1..MaxStarts :
       (SubmitTick(id) /\ CanSubmit) =>
          /\ posted' = PostBody
          /\ inflight' = inflight + 1]_vars

\* A tick issued a request while another one was in flight.
C14_Witness ==
  /\ inflight = 2
  /\ logged = "submitting"
  /\ posted # NoPost

\* C17: a status tick reports a successful submission exactly when one has
\* succeeded, adds the wind text exactly when windSpeed is non-empty and
\* windGust is set, takes the speed from the last sample, and changes no
\* buffer field.
C17_StatusTick ==
  [][\A id \in 1..MaxStarts :
       StatusTick(id) =>
          /\ UNCHANGED buffer
          /\ statusSet'.kind = "status"
          /\ statusSet'.submitted <=> (lastSuccessfulUpdate # Null)
          /\ (statusSet'.speedKts # Null) <=> (windSpeed # <<>> /\ windGust # Null)
          /\ (statusSet'.gustKts # Null) <=> (windSpeed # <<>> /\ windGust # Null)
          /\ (windSpeed # <<>> /\ windGust # Null) =>
               /\ statusSet'.speedKts =
                    MathRound(windSpeed[Len(windSpeed)] * 194384, 10000000)
               /\ statusSet'.gustKts = MathRound(windGust * 194384, 10000000)]_vars

\* After a success, a status with the wind text: last sample 5.0 m/s (9.7 kt)
\* under a gust of 7.0 m/s (13.6 kt).
C17_Witness ==
  /\ statusSet.kind = "status"
  /\ statusSet.submitted
  /\ windSpeed = <<7000, 5000>>
  /\ statusSet.speedKts = 97
  /\ statusSet.gustKts = 136


\* C19: a start that follows a stop begins with an empty buffer, so nothing an
\* earlier run ingested or recorded reaches a submission of the new run.
C19_BufferEmptyAfterRestart ==
  [][(started > 0 /\ ~ Running /\ Start(1)) =>
       (IngestCleared' /\ lastSuccessfulUpdate' = Null)]_vars

\* C20: whatever the sequence of start and stop calls, at most one submit
\* timer, one status timer and one subscription callback are active.
C20_AtMostOneActive ==
  /\ Cardinality(liveSubmit) <= 1
  /\ Cardinality(liveStatus) <= 1
  /\ unsubscribes <= 1


\* C16: a batch with no updates, no first-update values, or an empty list of
\* either changes no buffer field; any other batch has the effect of its
\* first update's first value alone, whatever values and updates follow it.
C16_OnlyFirstValue ==
  [][\A data \in Batches :
       DeltaBatch(data) =>
         IF (~ data.hasUpdates) \/ (data.updates = <<>>)
              \/ (~ data.updates[1].hasValues) \/ (data.updates[1].values = <<>>)
         THEN UNCHANGED buffer
         ELSE /\ Ingest' = [Deliver(Ingest, unsubscribes, "ok",
                                    data.updates[1].values[1].path,
                                    data.updates[1].values[1].value)
                              EXCEPT !.debug = "none"]
              /\ UNCHANGED lastSuccessfulUpdate]_vars

\* A sample was ingested and the unknown path that shared its batch was not
\* looked at.
C16_Witness ==
  /\ windSpeed = <<7000>>
  /\ temperature = Null
  /\ logged = "none"
  /\ statusSet = NoStatus


IsPrefix(s, t) == (Len(s) <= Len(t)) /\ (SubSeq(t, 1, Len(s)) = s)

\* C15 as stated: while no response has succeeded since a request failed, a
\* submit tick computes its request over a window that begins with every
\* sample the failed request carried and continues with the samples delivered
\* since, in the order they were delivered.
C15_FailedSamplesPersist ==
  [][\A id \in 1..MaxStarts :
       (SubmitTick(id) /\ posted' # NoPost) =>
          /\ IsPrefix(failedSnap, windSpeed)
          /\ windSpeed = [i \in 1..Len(fedWind) |-> toFixed2(fedWind[i])]
          /\ posted'.wind = median(windSpeed)]_vars

\* C15 amended: the same, provided no response has succeeded since the failed
\* request was issued (not only since it failed).
C15_FailedSamplesPersistSinceIssue ==
  [][\A id \in 1..MaxStarts :
       (SubmitTick(id) /\ posted' # NoPost /\ ~ overtaken) =>
          /\ IsPrefix(failedSnap, windSpeed)
          /\ windSpeed = [i \in 1..Len(fedWind) |-> toFixed2(fedWind[i])]
          /\ posted'.wind = median(windSpeed)]_vars

\* A request went out after an earlier one failed, over the failed window
\* and a newer sample.
C15_Witness ==
  /\ logged = "submitting"
  /\ failedSnap = <<5000>>
  /\ ~ overtaken
  /\ windSpeed = <<5000, 7000>>
  /\ posted.wind = 6000

\* C18: when a successful response clears the buffer, the window it removes is
\* the window the answered request was computed from.
C18_ClearedWasSubmitted ==
  [][\A clock \in Clocks :
       Response("ok200", clock) =>
         \E i \in 1..Len(flight) :
           /\ Len(flight') = Len(flight) - 1
           /\ \A j \in 1..Len(flight') :
                flight'[j].window = flight[IF j < i THEN j ELSE j + 1].window
           /\ windSpeed = flight[i].window]_vars

====
